---- MODULE Spec2Model ----
(***************************************************************************)
(* Authentication core of the book summarizer: backend/auth.py             *)
(* (registration, login, the in-process rate-limit ledger) over the users  *)
(* collection of utils/database.py with its unique index on email.         *)
(*                                                                         *)
(* Strings are sequences of one-character strings, so that lower(),        *)
(* strip() and the regular expressions are computed character by           *)
(* character.  None and "" behave alike in every place the code reads an   *)
(* argument (`x or ""`, `not x`, `identifier or ...`), so None is          *)
(* the empty sequence.  Time is in whole seconds since the process         *)
(* started; the code only ever compares differences of clock readings.     *)
(***************************************************************************)
EXTENDS Integers, Sequences, FiniteSets, TLC

VARIABLES
    now,             \* the clock read by time.time() and datetime.utcnow()
    login_attempts,  \* auth._login_attempts: identifier -> list of timestamps
    users,           \* the documents of the users collection
    last,            \* the call that produced this state, with what it returned
    registered,      \* history: the register_user calls that succeeded
    lists,           \* threaded runs: the list objects alive, by object id
    ledger_refs,     \* threaded runs: _login_attempts, identifier -> list object
    threads,         \* threaded runs: where each thread is in its call, its locals
    hist,            \* threaded runs, history: calls begun, lookups, appends, overlap
    session          \* the session dict the UI layer owns (st.session_state)

thread_vars == <<lists, ledger_refs, threads, hist>>

vars == <<now, login_attempts, users, last, registered, lists, ledger_refs,
          threads, hist, session>>

----------------------------------------------------------------------------
(* Bounds of the model *)

\* clock steps taken in one behaviour, in the runs that fill the ledger and in
\* the runs over every address
MaxTicks == 3

MaxTicksAccounts == 1

\* timestamps the ledger holds in total (the dict itself is unbounded), in the
\* runs that fill the ledger and in the runs over every address; an entry the
\* limiter guards holds 5 at most, so the first only binds with several entries
MaxLedger == 6

MaxLedgerAccounts == 1

\* the same two, in the runs in which the store fails
MaxTicksFaults == 1

MaxLedgerFaults == 2

\* the same two, in the runs made through the login page
MaxTicksFrontend == 1

MaxLedgerFrontend == 6

\* calls begun in one behaviour of the threaded runs
MaxCallsThreads == 6

----------------------------------------------------------------------------
(* Program constants *)

BCRYPT_ROUNDS == 12

MAX_LOGIN_ATTEMPTS == 5

LOGIN_WINDOW_SECONDS == 15 * 60

----------------------------------------------------------------------------
(* Python str operations *)

UpperLetters ==
    <<"A","B","C","D","E","F","G","H","I","J","K","L","M",
      "N","O","P","Q","R","S","T","U","V","W","X","Y","Z">>

LowerLetters ==
    <<"a","b","c","d","e","f","g","h","i","j","k","l","m",
      "n","o","p","q","r","s","t","u","v","w","x","y","z">>

Range(s) == {s[i] : i \in DOMAIN s}

Upper == Range(UpperLetters)

Letters == Range(UpperLetters) \cup Range(LowerLetters)

Digits == {"0","1","2","3","4","5","6","7","8","9"}

Whitespace == {" ", "\t", "\n", "\r"}

\* str.lower() on one ASCII character
LowerChar(c) ==
    IF c \in Upper
    THEN LowerLetters[CHOOSE i \in DOMAIN UpperLetters : UpperLetters[i] = c]
    ELSE c

\* str.lower()
Lower(s) == [i \in DOMAIN s |-> LowerChar(s[i])]

\* str.strip(): drops leading and trailing whitespace
Strip(s) ==
    LET keep == {i \in DOMAIN s : s[i] \notin Whitespace}
    IN  IF keep = {} THEN <<>>
        ELSE SubSeq(s, CHOOSE i \in keep : \A j \in keep : i <= j,
                       CHOOSE i \in keep : \A j \in keep : i >= j)

\* Where a pattern ending in "$" may stop: at the end of the string, or just
\* before a newline that ends the string (Python's "$" without re.MULTILINE).
DollarEnds(s) ==
    {Len(s)} \cup {n \in {Len(s) - 1} : n >= 0 /\ s[Len(s)] = "\n"}

\* re.search(r"[...]", s): some character of s is in the class
Search(class, s) == \E i \in DOMAIN s : s[i] \in class

----------------------------------------------------------------------------
(* Validation: auth.py lines 41-70 *)

LocalChars == Letters \cup Digits \cup {".", "_", "%", "+", "-"}

DomainChars == Letters \cup Digits \cup {".", "-"}

SpecialChars ==
    {"!","@","#","$","%","^","&","*","(",")",",",".","?","\"",":","{","}","|","<",">"}

\* EMAIL_REGEX.match(s):  ^[a-zA-Z0-9._%+-]+@[a-zA-Z0-9.-]+\.[a-zA-Z]{2,}$
EMAIL_REGEX(s) ==
    \E end \in DollarEnds(s) : \E at \in 1..end : \E dot \in 1..end :
        /\ at >= 2
        /\ \A i \in 1..(at - 1) : s[i] \in LocalChars
        /\ s[at] = "@"
        /\ dot >= at + 2
        /\ \A i \in (at + 1)..(dot - 1) : s[i] \in DomainChars
        /\ s[dot] = "."
        /\ end - dot >= 2
        /\ \A i \in (dot + 1)..end : s[i] \in Letters

\* re.match(r"^[A-Za-z ]+$", s)
NAME_REGEX(s) ==
    \E end \in DollarEnds(s) :
        /\ end >= 1
        /\ \A i \in 1..end : s[i] \in Letters \cup {" "}

\* the messages a list comprehension over (failed, message) pairs keeps, in order
Messages(checks) ==
    LET RECURSIVE Keep(_)
        Keep(i) == IF i > Len(checks) THEN <<>>
                   ELSE (IF checks[i][1] THEN <<checks[i][2]>> ELSE <<>>) \o Keep(i + 1)
    IN  Keep(1)

_validate_registration_input(name, email, password) ==
    Messages(<<
      <<name = <<>> \/ Len(Strip(name)) < 2, "Name must be at least 2 characters.">>,
      <<~NAME_REGEX(Strip(name)), "Name must contain only letters and spaces.">>,
      <<email = <<>> \/ ~EMAIL_REGEX(email), "Invalid email format.">>,
      <<password = <<>> \/ Len(password) < 8,
        "Password must be at least 8 characters long.">>,
      <<~Search(Upper, password), "Password must contain at least 1 uppercase letter.">>,
      <<~Search(Range(LowerLetters), password),
        "Password must contain at least 1 lowercase letter.">>,
      <<~Search(Digits, password), "Password must contain at least 1 number.">>,
      <<~Search(SpecialChars, password),
        "Password must contain at least 1 special character.">> >>)

\* mutant: the empty password is let through
_validate_login_input_AnyPassword(email, password) ==
    IF email = <<>> \/ ~EMAIL_REGEX(email) THEN <<FALSE, "Invalid credentials.">>
    ELSE <<TRUE, "None">>

_validate_login_input(email, password) ==
    IF email = <<>> \/ ~EMAIL_REGEX(email) THEN <<FALSE, "Invalid credentials.">>
    ELSE IF password = <<>> THEN <<FALSE, "Invalid credentials.">>
    ELSE <<TRUE, "None">>

----------------------------------------------------------------------------
(* Python None, as a returned value *)

None == [none |-> TRUE]

----------------------------------------------------------------------------
(* The rate-limit ledger: auth.py lines 21, 76-98.  The dict is a function *)
(* whose domain is the set of keys present.                                *)

\* _login_attempts.get(identifier, [])
Get(la, identifier) == IF identifier \in DOMAIN la THEN la[identifier] ELSE <<>>

\* _login_attempts[identifier] = attempts
Put(la, identifier, attempts) ==
    [k \in DOMAIN la \cup {identifier} |-> IF k = identifier THEN attempts ELSE la[k]]

\* _login_attempts.pop(identifier, None)
Pop(la, identifier) == [k \in DOMAIN la \ {identifier} |-> la[k]]

\* mutant: nothing is filtered out
InWindow_KeepsAll(attempts, window_start) == attempts

\* mutant: ">" for ">=", an attempt exactly a window old is dropped
InWindow_Strict(attempts, window_start) ==
    LET keep(ts) == ts > window_start
    IN  SelectSeq(attempts, keep)

\* [ts for ts in attempts if ts >= window_start]
InWindow(attempts, window_start) ==
    LET keep(ts) == ts >= window_start
    IN  SelectSeq(attempts, keep)

\* the ledger after _cleanup_attempts(identifier) reads the clock at t
_cleanup_attempts(la, identifier, t) ==
    LET window_start == t - LOGIN_WINDOW_SECONDS
        attempts == InWindow(Get(la, identifier), window_start)
    IN  IF attempts # <<>> THEN Put(la, identifier, attempts)
        ELSE Pop(la, identifier)

\* the ledger after _record_failed_attempt(identifier), whose own clock read
\* gives t and whose _cleanup_attempts reads t2
_record_failed_attempt(la, identifier, t, t2) ==
    LET attempts == Append(Get(la, identifier), t)
    IN  _cleanup_attempts(Put(la, identifier, attempts), identifier, t2)

\* mutant: ">" for ">="
_is_rate_limited_OffByOne(la, identifier, t) ==
    LET la1 == _cleanup_attempts(la, identifier, t)
    IN  [limited  |-> Len(Get(la1, identifier)) > MAX_LOGIN_ATTEMPTS,
         attempts |-> la1]

\* mutant: ">" for ">="
len_limited_OffByOne(attempts) == Len(attempts) > MAX_LOGIN_ATTEMPTS

\* len(...) >= MAX_LOGIN_ATTEMPTS, line 98
len_limited(attempts) == Len(attempts) >= MAX_LOGIN_ATTEMPTS

\* mutant: a check that finds the limit reached drops the oldest attempt
_is_rate_limited_DropsOldest(la, identifier, t) ==
    LET la1 == _cleanup_attempts(la, identifier, t)
    IN  [limited  |-> Len(Get(la1, identifier)) >= MAX_LOGIN_ATTEMPTS,
         attempts |-> IF Len(Get(la1, identifier)) >= MAX_LOGIN_ATTEMPTS
                      THEN Put(la1, identifier, Tail(Get(la1, identifier)))
                      ELSE la1]

\* mutant: the check itself is recorded as an attempt
_is_rate_limited_CountsCheck(la, identifier, t) ==
    LET la1 == _cleanup_attempts(la, identifier, t)
    IN  [limited  |-> Len(Get(la1, identifier)) >= MAX_LOGIN_ATTEMPTS,
         attempts |-> IF Len(Get(la1, identifier)) >= MAX_LOGIN_ATTEMPTS
                      THEN _record_failed_attempt(la1, identifier, t, t)
                      ELSE la1]

\* _is_rate_limited(identifier) at clock t: what it returns and the ledger it leaves
_is_rate_limited(la, identifier, t) ==
    LET la1 == _cleanup_attempts(la, identifier, t)
    IN  [limited  |-> Len(Get(la1, identifier)) >= MAX_LOGIN_ATTEMPTS,
         attempts |-> la1]

----------------------------------------------------------------------------
(* bcrypt and the users collection *)

\* bcrypt.hashpw(password, bcrypt.gensalt(rounds)): a salted one-way digest,
\* kept symbolic (the digest of a password under a salt is the pair itself)
hashpw(password, salt) ==
    [rounds |-> BCRYPT_ROUNDS, salt |-> salt, digest |-> <<salt, password>>]

\* bcrypt.checkpw(password, stored_hash): hashes again under the stored salt
checkpw(password, stored_hash) ==
    hashpw(password, stored_hash.salt).digest = stored_hash.digest

\* a stored hash bcrypt cannot parse: the "" that user.get("password_hash", "")
\* gives for a record without the field, or any text that is no bcrypt hash
MalformedHash == [rounds |-> 0, salt |-> 0, digest |-> <<>>]

\* bcrypt.checkpw(password, stored_hash) raises ValueError ("Invalid salt")
checkpw_raises(stored_hash) == stored_hash = MalformedHash

\* what the store does with one call: it answers, it fails with a
\* PyMongoError that is no DuplicateKeyError, or something else goes wrong
StoreBehaviours == {"ok", "PyMongoError", "Exception"}

\* an argument that is not a string (the integer 5): a one-element sequence
\* holding what no string holds
NotAString == <<"<int 5>">>

IsStr(x) == x # NotAString

\* str(ObjectId)
ObjectIdStr(oid) == [oid |-> oid]

\* mutant: the collection has no unique index on email
insert_one_NoIndex(us, doc) ==
    LET id == Cardinality(us) + 1
    IN  [raised |-> "", inserted_id |-> id, users |-> us \cup {[_id |-> id] @@ doc}]

\* users.insert_one(doc) under the unique index on email (create_indexes):
\* DuplicateKeyError when a document has that email, else the document is
\* stored under a fresh _id
insert_one(us, doc) ==
    IF \E u \in us : u.email = doc.email
    THEN [raised |-> "DuplicateKeyError", inserted_id |-> 0, users |-> us]
    ELSE LET id == Cardinality(us) + 1
         IN  [raised |-> "", inserted_id |-> id,
              users |-> us \cup {[_id |-> id] @@ doc}]

\* users.find_one({"email": email}): a matching document, or None
find_one(us, email) ==
    IF \E u \in us : u.email = email
    THEN CHOOSE u \in us : u.email = email
    ELSE None

----------------------------------------------------------------------------
(* register_user: auth.py lines 104-139 *)

\* "Validation failed: " + "; ".join(errors)
ValidationFailed(errors) == <<"Validation failed: ", errors>>

\* mutant: a store failure is reported under the name of the exception
register_insert_LeaksError(us, t, salt, fullName, email, password, store) ==
    LET user_doc == [name |-> Strip(fullName),
                     email |-> Lower(Strip(email)),
                     password_hash |-> hashpw(password, salt),
                     role |-> "user",
                     created_at |-> t]
        ins == IF store = "ok" THEN insert_one(us, user_doc)
               ELSE [raised |-> store, inserted_id |-> 0, users |-> us]
    IN  IF ins.raised = ""
        THEN [result |-> [success |-> TRUE,
                          message |-> "User registered successfully",
                          user_id |-> ObjectIdStr(ins.inserted_id)],
              users |-> ins.users, ops |-> <<"insert_one">>]
        ELSE IF ins.raised = "DuplicateKeyError"
        THEN [result |-> [success |-> FALSE,
                          message |-> "Email already registered",
                          user_id |-> None],
              users |-> ins.users, ops |-> <<"insert_one">>]
        ELSE [result |-> [success |-> FALSE, message |-> ins.raised,
                          user_id |-> None],
              users |-> ins.users, ops |-> <<"insert_one">>]

\* Lines 110-139, what register_user does with input that passed validation:
\* the document it inserts at clock t under the salt gensalt() drew, what it
\* returns, the collection it leaves, the store calls it made.  A store call
\* that raises leaves the collection as it was.
register_insert(us, t, salt, fullName, email, password, store) ==
    LET user_doc == [name |-> Strip(fullName),
                     email |-> Lower(Strip(email)),
                     password_hash |-> hashpw(password, salt),
                     role |-> "user",
                     created_at |-> t]
        ins == IF store = "ok" THEN insert_one(us, user_doc)
               ELSE [raised |-> store, inserted_id |-> 0, users |-> us]
    IN  IF ins.raised = ""
        THEN [result |-> [success |-> TRUE,
                          message |-> "User registered successfully",
                          user_id |-> ObjectIdStr(ins.inserted_id)],
              users |-> ins.users, ops |-> <<"insert_one">>]
        ELSE IF ins.raised = "DuplicateKeyError"
        THEN [result |-> [success |-> FALSE,
                          message |-> "Email already registered",
                          user_id |-> None],
              users |-> ins.users, ops |-> <<"insert_one">>]
        ELSE IF ins.raised = "PyMongoError"
        THEN [result |-> [success |-> FALSE, message |-> "Database error",
                          user_id |-> None],
              users |-> ins.users, ops |-> <<"insert_one">>]
        ELSE [result |-> [success |-> FALSE, message |-> "Internal error",
                          user_id |-> None],
              users |-> ins.users, ops |-> <<"insert_one">>]

\* mutant: the early return on validation errors is missing
register_user_Unvalidated(us, t, salt, fullName, email, password, store) ==
    register_insert(us, t, salt, fullName, email, password, store)

\* register_user(fullName, email, password), the store behaving as `store`
\* when it is called.  EMAIL_REGEX.match raises TypeError on an email that is
\* not a string (line 50), which the handler of line 137 catches.
register_user(us, t, salt, fullName, email, password, store) ==
    IF ~IsStr(email)
    THEN [result |-> [success |-> FALSE, message |-> "Internal error",
                      user_id |-> None],
          users |-> us, ops |-> <<>>]
    ELSE
      LET errors == _validate_registration_input(fullName, email, password)
      IN  IF errors # <<>>
          THEN [result |-> [success |-> FALSE, message |-> ValidationFailed(errors),
                            user_id |-> None],
                users |-> us, ops |-> <<>>]
          ELSE register_insert(us, t, salt, fullName, email, password, store)

----------------------------------------------------------------------------
(* login_user: auth.py lines 145-196 *)

InvalidCredentials == [success |-> FALSE, message |-> "Invalid credentials", user |-> None]

TooManyAttempts ==
    [success |-> FALSE, message |-> "Too many failed attempts. Try again later.",
     user |-> None]

DatabaseError == [success |-> FALSE, message |-> "Database error", user |-> None]

InternalError == [success |-> FALSE, message |-> "Internal error", user |-> None]

\* ident = identifier or email.lower()
Ident(identifier, email) == IF identifier # <<>> THEN identifier ELSE Lower(email)

\* the dict built at lines 181-187
user_safe(user) ==
    [user_id    |-> ObjectIdStr(user._id),
     name       |-> user.name,
     email      |-> user.email,
     role       |-> user.role,
     created_at |-> user.created_at]

\* mutant: a successful login leaves the ledger entry in place
login_lookup_KeepsEntry(la, us, t2, t3, email, password, ident, store) ==
    LET user == find_one(us, Lower(email))
        failed == [result   |-> InvalidCredentials,
                   attempts |-> _record_failed_attempt(la, ident, t2, t3),
                   ops      |-> <<"find_one">>]
    IN  IF store = "PyMongoError"
        THEN [result |-> DatabaseError, attempts |-> la, ops |-> <<"find_one">>]
        ELSE IF store = "Exception"
        THEN [result |-> InternalError, attempts |-> la, ops |-> <<"find_one">>]
        ELSE IF user = None THEN failed
        ELSE IF checkpw_raises(user.password_hash) THEN failed
        ELSE IF ~checkpw(password, user.password_hash) THEN failed
        ELSE [result |-> [success |-> TRUE, message |-> "Login successful",
                          user |-> user_safe(user)],
              attempts |-> la,
              ops |-> <<"find_one">>]

\* mutant: a successful login assigns the empty list instead of popping the key
login_lookup_EmptiesEntry(la, us, t2, t3, email, password, ident, store) ==
    LET user == find_one(us, Lower(email))
        failed == [result   |-> InvalidCredentials,
                   attempts |-> _record_failed_attempt(la, ident, t2, t3),
                   ops      |-> <<"find_one">>]
    IN  IF store = "PyMongoError"
        THEN [result |-> DatabaseError, attempts |-> la, ops |-> <<"find_one">>]
        ELSE IF store = "Exception"
        THEN [result |-> InternalError, attempts |-> la, ops |-> <<"find_one">>]
        ELSE IF user = None THEN failed
        ELSE IF checkpw_raises(user.password_hash) THEN failed
        ELSE IF ~checkpw(password, user.password_hash) THEN failed
        ELSE [result |-> [success |-> TRUE, message |-> "Login successful",
                          user |-> user_safe(user)],
              attempts |-> Put(la, ident, <<>>),
              ops |-> <<"find_one">>]

\* mutant: an unknown email gets its own message and is not counted
login_lookup_NamesUnknown(la, us, t2, t3, email, password, ident, store) ==
    LET user == find_one(us, Lower(email))
        failed == [result   |-> InvalidCredentials,
                   attempts |-> _record_failed_attempt(la, ident, t2, t3),
                   ops      |-> <<"find_one">>]
    IN  IF store = "PyMongoError"
        THEN [result |-> DatabaseError, attempts |-> la, ops |-> <<"find_one">>]
        ELSE IF store = "Exception"
        THEN [result |-> InternalError, attempts |-> la, ops |-> <<"find_one">>]
        ELSE IF user = None
        THEN [result |-> [success |-> FALSE, message |-> "User not found",
                          user |-> None],
              attempts |-> la, ops |-> <<"find_one">>]
        ELSE IF checkpw_raises(user.password_hash) THEN failed
        ELSE IF ~checkpw(password, user.password_hash) THEN failed
        ELSE [result |-> [success |-> TRUE, message |-> "Login successful",
                          user |-> user_safe(user)],
              attempts |-> IF ident \in DOMAIN la THEN Pop(la, ident) ELSE la,
              ops |-> <<"find_one">>]

\* mutant: a lookup that fails with a store error is counted as a failed attempt
login_lookup_CountsStoreError(la, us, t2, t3, email, password, ident, store) ==
    LET user == find_one(us, Lower(email))
        failed == [result   |-> InvalidCredentials,
                   attempts |-> _record_failed_attempt(la, ident, t2, t3),
                   ops      |-> <<"find_one">>]
    IN  IF store = "PyMongoError"
        THEN [result |-> DatabaseError,
              attempts |-> _record_failed_attempt(la, ident, t2, t3),
              ops |-> <<"find_one">>]
        ELSE IF store = "Exception"
        THEN [result |-> InternalError, attempts |-> la, ops |-> <<"find_one">>]
        ELSE IF user = None THEN failed
        ELSE IF checkpw_raises(user.password_hash) THEN failed
        ELSE IF ~checkpw(password, user.password_hash) THEN failed
        ELSE [result |-> [success |-> TRUE, message |-> "Login successful",
                          user |-> user_safe(user)],
              attempts |-> IF ident \in DOMAIN la THEN Pop(la, ident) ELSE la,
              ops |-> <<"find_one">>]

\* mutant: a stored hash that does not parse ends the call with "Internal
\* error", nothing recorded
login_lookup_HashErrorInternal(la, us, t2, t3, email, password, ident, store) ==
    LET user == find_one(us, Lower(email))
        failed == [result   |-> InvalidCredentials,
                   attempts |-> _record_failed_attempt(la, ident, t2, t3),
                   ops      |-> <<"find_one">>]
    IN  IF store = "PyMongoError"
        THEN [result |-> DatabaseError, attempts |-> la, ops |-> <<"find_one">>]
        ELSE IF store = "Exception"
        THEN [result |-> InternalError, attempts |-> la, ops |-> <<"find_one">>]
        ELSE IF user = None THEN failed
        ELSE IF checkpw_raises(user.password_hash)
        THEN [result |-> InternalError, attempts |-> la, ops |-> <<"find_one">>]
        ELSE IF ~checkpw(password, user.password_hash) THEN failed
        ELSE [result |-> [success |-> TRUE, message |-> "Login successful",
                          user |-> user_safe(user)],
              attempts |-> IF ident \in DOMAIN la THEN Pop(la, ident) ELSE la,
              ops |-> <<"find_one">>]

\* Lines 156-196, what login_user does once the rate limiter let the call
\* through with the ledger la: the lookup, the password check, the ledger
\* update.  t2 and t3 are the clock readings of _record_failed_attempt and of
\* its cleanup.  A find_one that raises is caught at line 191 or 194; a
\* checkpw that raises is caught at line 168.
login_lookup(la, us, t2, t3, email, password, ident, store) ==
    LET user == find_one(us, Lower(email))
        failed == [result   |-> InvalidCredentials,
                   attempts |-> _record_failed_attempt(la, ident, t2, t3),
                   ops      |-> <<"find_one">>]
    IN  IF store = "PyMongoError"
        THEN [result |-> DatabaseError, attempts |-> la, ops |-> <<"find_one">>]
        ELSE IF store = "Exception"
        THEN [result |-> InternalError, attempts |-> la, ops |-> <<"find_one">>]
        ELSE IF user = None THEN failed
        ELSE IF checkpw_raises(user.password_hash) THEN failed
        ELSE IF ~checkpw(password, user.password_hash) THEN failed
        ELSE [result |-> [success |-> TRUE, message |-> "Login successful",
                          user |-> user_safe(user)],
              attempts |-> IF ident \in DOMAIN la THEN Pop(la, ident) ELSE la,
              ops |-> <<"find_one">>]

\* login_user(email, password, identifier), the store behaving as `store`
\* when it is called: what it returns, the ledger it leaves and the store
\* calls it made; t1 is the clock reading of _is_rate_limited.
\* EMAIL_REGEX.match raises TypeError on an email that is not a string (line
\* 66), which the handler of line 194 catches.
login_user(la, us, t1, t2, t3, email, password, identifier, store) ==
    IF ~IsStr(email)
    THEN [result |-> InternalError, attempts |-> la, ops |-> <<>>]
    ELSE IF ~_validate_login_input(email, password)[1]
    THEN [result |-> InvalidCredentials, attempts |-> la, ops |-> <<>>]
    ELSE
      LET ident == Ident(identifier, email)
          rl == _is_rate_limited(la, ident, t1)
      IN  IF rl.limited
          THEN [result |-> TooManyAttempts, attempts |-> rl.attempts, ops |-> <<>>]
          ELSE login_lookup(rl.attempts, us, t2, t3, email, password, ident, store)

----------------------------------------------------------------------------
(* The calls the callers make *)

\* "a@x.io", the same in another letter case, the same followed by a newline,
\* a second address, a string with no "@"; None is <<>>
EmailA == <<"a","@","x",".","i","o">>

EmailUpperA == <<"A","@","x",".","i","o">>

EmailNewlineA == <<"a","@","x",".","i","o","\n">>

EmailB == <<"b","@","x",".","i","o">>

EmailBad == <<"a","x">>

\* two passwords that meet every rule, and one breaking each rule alone
Password1 == <<"A","a","1","!","a","a","a","a">>

Password2 == <<"B","b","2","?","b","b","b","b">>

PasswordShort == <<"A","a","1","!","a","a","a">>

PasswordNoUpper == <<"a","a","1","!","a","a","a","a">>

PasswordNoLower == <<"A","A","1","!","A","A","A","A">>

PasswordNoDigit == <<"A","a","!","!","a","a","a","a">>

PasswordNoSpecial == <<"A","a","1","1","a","a","a","a">>

NameAl == <<"A","l">>

NameAlPadded == <<" ","A","l"," ">>

\* register_user(fullName, email, password) calls that break a rule: one per
\* rule, and the call with every argument None
BadRegisterCalls ==
    {<<n, EmailA, Password1>> : n \in {<<"A">>, <<" ","A"," ">>, <<"A","1">>, <<>>}}
    \cup {<<NameAl, e, Password1>> : e \in {EmailBad, <<>>}}
    \cup {<<NameAl, EmailA, p>> :
            p \in {PasswordShort, PasswordNoUpper, PasswordNoLower, PasswordNoDigit,
                   PasswordNoSpecial, <<>>}}
    \cup {<<<<>>, <<>>, <<>>>>}

\* every well-formed call over four addresses and two passwords, and the calls
\* that break a rule
RegisterCalls ==
    ({NameAlPadded} \X {EmailA, EmailUpperA, EmailNewlineA, EmailB}
        \X {Password1, Password2})
    \cup BadRegisterCalls

\* login_user(email, password, identifier) over a set of emails: identifier is
\* left out (None) or, as the login page passes it, the typed email
LoginCallsOver(emails) ==
    UNION {{<<e, p, i>> : p \in {Password1, Password2, <<>>}, i \in {<<>>, e}} :
           e \in emails}

\* the logins of the runs over every address: identifier left out
LoginCalls ==
    {c \in LoginCallsOver({EmailA, EmailUpperA, EmailNewlineA, EmailBad, <<>>}) :
        c[3] = <<>>}

\* the calls of the runs that fill the ledger: one account, registered under
\* its upper-case spelling, and logins under both spellings.  The logins all
\* count under one identifier, "a@x.io": as the login page calls for the
\* lower-case spelling, with the identifier left out for the upper-case one.
LedgerRegisterCalls ==
    {<<NameAlPadded, EmailUpperA, Password1>>, <<NameAl, EmailBad, Password1>>}

LedgerLoginCalls ==
    LoginCallsOver({EmailA, EmailBad})
    \cup {c \in LoginCallsOver({EmailUpperA}) : c[3] = <<>>}

\* the logins of the login page, which passes the typed email as the
\* identifier: one account typed in two letter cases, and an email without
\* the format
FrontendLoginCalls ==
    {<<e, p, e>> : e \in {EmailA, EmailUpperA, EmailBad}, p \in {Password1, Password2}}

\* the calls of the runs in which the store fails: one account, a call that
\* fails validation, a call whose email is the integer 5; logins for that
\* account, for the address of the foreign record, and the malformed ones
FaultRegisterCalls ==
    {<<NameAlPadded, EmailA, Password1>>, <<NameAl, EmailBad, Password1>>,
     <<NameAl, NotAString, Password1>>}

FaultLoginCalls ==
    {<<e, p, <<>>>> : e \in {EmailA, EmailB, EmailBad, NotAString},
                      p \in {Password1, Password2}}

\* the calls of the threaded runs: one account under both spellings, and a
\* call that fails validation; logins with its password, with a wrong one,
\* and a malformed one, all counted under the identifier "a@x.io"
ThreadRegisterCalls ==
    {<<NameAl, EmailA, Password1>>, <<NameAl, EmailUpperA, Password1>>,
     <<NameAl, EmailBad, Password1>>}

ThreadLoginCalls ==
    {<<EmailA, Password1, <<>>>>, <<EmailUpperA, Password2, <<>>>>,
     <<EmailBad, Password1, <<>>>>}

\* clock steps between calls
TickSteps == {1, LOGIN_WINDOW_SECONDS}

\* salts gensalt() draws
Salts == {1}

\* the clock steps that lead to time t
Ticks(t) == (t \div LOGIN_WINDOW_SECONDS) + (t % LOGIN_WINDOW_SECONDS)

\* timestamps held by a ledger
RECURSIVE Held(_)
Held(la) ==
    IF DOMAIN la = {} THEN 0
    ELSE LET k == CHOOSE k \in DOMAIN la : TRUE
         IN  Len(la[k]) + Held(Pop(la, k))

----------------------------------------------------------------------------
(* The state machine.  A call is one step: the module is used synchronously, *)
(* one request at a time, and the clock readings of one call are the same    *)
(* instant.  The caller takes the returned value (Return) before the next    *)
(* call or clock step.                                                       *)

\* the threads of the threaded runs
Threads == {"t1", "t2"}

\* a thread that has made no call yet
Idle(result) ==
    [pc |-> "idle", op |-> "none", name |-> <<>>, email |-> <<>>,
     password |-> <<>>, ident |-> <<>>, attempts |-> 0, t |-> 0, after |-> "",
     doc |-> None, user |-> None, result |-> result]

\* a thread whose call has returned: the operation, its arguments and the
\* result stay, its locals are gone
Finished(th, result) ==
    [th EXCEPT !.pc = "idle", !.ident = <<>>, !.attempts = 0, !.t = 0,
               !.after = "", !.doc = None, !.user = None, !.result = result]

NoCall ==
    [op |-> "none", name |-> <<>>, email |-> <<>>, password |-> <<>>,
     identifier |-> <<>>, result |-> None, ops |-> <<>>, found |-> <<>>,
     store |-> "ok"]

Init ==
    /\ now = 0
    /\ login_attempts = <<>>
    /\ users = {}
    /\ last = NoCall
    /\ registered = {}
    /\ lists = <<>>
    /\ ledger_refs = <<>>
    /\ threads = [p \in Threads |-> Idle(None)]
    /\ hist = [begun |-> 0, lookups |-> 0, appended |-> 0, overlapped |-> FALSE,
               cleared |-> FALSE, inserted |-> <<>>]
    /\ session = <<>>

\* time passes between calls
Tick(ticks) ==
    /\ last = NoCall
    /\ \E d \in TickSteps :
        /\ Ticks(now + d) <= ticks
        /\ now' = now + d
    /\ UNCHANGED <<login_attempts, users, last, registered>>
    /\ UNCHANGED <<thread_vars, session>>

\* the caller has taken the result of the last call
Return ==
    /\ last # NoCall
    /\ last' = NoCall
    /\ UNCHANGED <<now, login_attempts, users, registered>>
    /\ UNCHANGED <<thread_vars, session>>

\* one call of register_user
Register(calls, stores) ==
    /\ last = NoCall
    /\ \E c \in calls : \E salt \in Salts : \E store \in stores :
        LET r == register_user(users, now, salt, c[1], c[2], c[3], store)
        IN  /\ users' = r.users
            /\ last' = [op |-> "register", name |-> c[1], email |-> c[2],
                        password |-> c[3], identifier |-> <<>>,
                        result |-> r.result, ops |-> r.ops, found |-> <<>>,
                        store |-> store]
            /\ registered' = IF r.result.success THEN registered \cup {c}
                              ELSE registered
    /\ UNCHANGED <<now, login_attempts>>
    /\ UNCHANGED <<thread_vars, session>>

\* one call of login_user; last.found is the ledger entry of the call's
\* identifier when the call began
Login(calls, held, stores) ==
    /\ last = NoCall
    /\ \E c \in calls : \E store \in stores :
        LET r == login_user(login_attempts, users, now, now, now, c[1], c[2], c[3],
                            store)
        IN  /\ Held(r.attempts) <= held
            /\ login_attempts' = r.attempts
            /\ last' = [op |-> "login", name |-> <<>>, email |-> c[1],
                        password |-> c[2], identifier |-> c[3],
                        result |-> r.result, ops |-> r.ops,
                        found |-> Get(login_attempts, Ident(c[3], c[1])),
                        store |-> store]
    /\ UNCHANGED <<now, users, registered>>
    /\ UNCHANGED <<thread_vars, session>>

\* another writer of the users collection stores a record whose password_hash
\* is no bcrypt hash
ForeignWrite ==
    /\ last = NoCall
    /\ LET ins == insert_one(users, [name |-> NameAl, email |-> Lower(EmailB),
                                     password_hash |-> MalformedHash,
                                     role |-> "user", created_at |-> now])
       IN  /\ ins.raised = ""
           /\ users' = ins.users
    /\ UNCHANGED <<now, login_attempts, last, registered>>
    /\ UNCHANGED <<thread_vars, session>>

\* runs that fill the rate-limit ledger for one account
Next == Tick(MaxTicks) \/ Return \/ Register(LedgerRegisterCalls, {"ok"}) \/ Login(LedgerLoginCalls, MaxLedger, {"ok"})

Spec == Init /\ [][Next]_vars

\* runs that register and log in over every address, with a ledger too small
\* to lock anyone out
NextAccounts == Tick(MaxTicksAccounts) \/ Return \/ Register(RegisterCalls, {"ok"}) \/ Login(LoginCalls, MaxLedgerAccounts, {"ok"})

SpecAccounts == Init /\ [][NextAccounts]_vars

\* runs in which the store may fail at any call, an email may be no string,
\* and the collection may hold a record with a malformed hash
NextFaults == Tick(MaxTicksFaults) \/ Return \/ Register(FaultRegisterCalls, StoreBehaviours) \/ Login(FaultLoginCalls, MaxLedgerFaults, StoreBehaviours) \/ ForeignWrite

SpecFaults == Init /\ [][NextFaults]_vars

\* runs in which every login is submitted through the login page
NextFrontend == Tick(MaxTicksFrontend) \/ Return \/ Register(LedgerRegisterCalls, {"ok"}) \/ Login(FrontendLoginCalls, MaxLedgerFrontend, {"ok"})

SpecFrontend == Init /\ [][NextFrontend]_vars

----------------------------------------------------------------------------
(* Threaded runs: the calls of several threads interleave between their      *)
(* accesses to the shared state, the dict _login_attempts, the list objects  *)
(* it holds, and the users collection.  A list is an object: the dict and a  *)
(* thread's local variable `attempts` hold references to it, and             *)
(* attempts.append changes it in place.  All calls fall in one window: the   *)
(* clock does not advance in these runs.                                     *)

\* the list the dict holds for an identifier: _login_attempts.get(identifier, [])
Deref(refs, ls, identifier) ==
    IF identifier \in DOMAIN refs THEN ls[refs[identifier]] ELSE <<>>

\* the id of a new list object: the least one not alive
Fresh(ls) ==
    CHOOSE i \in 1..(Cardinality(DOMAIN ls) + 1) :
        i \notin DOMAIN ls /\ \A j \in 1..(i - 1) : j \in DOMAIN ls

\* the list objects still referenced, by the dict or by a local variable
Collect(ls, refs, ths) ==
    [i \in DOMAIN ls \cap ({refs[k] : k \in DOMAIN refs}
                            \cup {ths[p].attempts : p \in Threads}) |-> ls[i]]

\* hist when thread p begins a call
Begun(p) ==
    [hist EXCEPT !.begun = @ + 1,
                 !.overlapped = @ \/ \E q \in Threads \ {p} : threads[q].pc # "idle"]

\* lines 147-151: login_user validates and resolves the identifier
ThreadBeginLogin(p, calls, max) ==
    /\ threads[p].pc = "idle"
    /\ hist.begun < max
    /\ \E c \in calls :
         threads' = [threads EXCEPT ![p] =
            IF ~IsStr(c[1])
            THEN Finished([Idle(None) EXCEPT !.op = "login", !.email = c[1],
                                             !.password = c[2]], InternalError)
            ELSE IF ~_validate_login_input(c[1], c[2])[1]
            THEN Finished([Idle(None) EXCEPT !.op = "login", !.email = c[1],
                                             !.password = c[2]], InvalidCredentials)
            ELSE [Idle(None) EXCEPT !.pc = "cleanup_read", !.op = "login",
                                    !.email = c[1], !.password = c[2],
                                    !.ident = Ident(c[3], c[1]),
                                    !.after = "check_len"]]
    /\ hist' = Begun(p)
    /\ UNCHANGED <<session, now, login_attempts, users, last, registered, lists, ledger_refs>>

\* lines 77-80 of _cleanup_attempts: the list comprehension builds a new list
\* from the one the dict holds
ThreadCleanupRead(p) ==
    /\ threads[p].pc = "cleanup_read"
    /\ LET id   == Fresh(lists)
           kept == InWindow(Deref(ledger_refs, lists, threads[p].ident),
                            now - LOGIN_WINDOW_SECONDS)
           ths  == [threads EXCEPT ![p].pc = "cleanup_write", ![p].attempts = id]
       IN  /\ threads' = ths
           /\ lists' = Collect((id :> kept) @@ lists, ledger_refs, ths)
    /\ UNCHANGED <<session, now, login_attempts, users, last, registered, ledger_refs, hist>>

\* lines 82-85 of _cleanup_attempts: the dict gets the new list, or loses the
\* key; _record_failed_attempt then returns to line 163, 170 or 175
ThreadCleanupWrite(p) ==
    /\ threads[p].pc = "cleanup_write"
    /\ LET th   == threads[p]
           refs == IF lists[th.attempts] # <<>>
                   THEN Put(ledger_refs, th.ident, th.attempts)
                   ELSE Pop(ledger_refs, th.ident)
           ths  == [threads EXCEPT ![p] =
                      IF th.after = "check_len"
                      THEN [th EXCEPT !.pc = "check_len", !.attempts = 0]
                      ELSE Finished(th, InvalidCredentials)]
       IN  /\ ledger_refs' = refs
           /\ threads' = ths
           /\ lists' = Collect(lists, refs, ths)
    /\ UNCHANGED <<session, now, login_attempts, users, last, registered, hist>>

\* line 98 and lines 152-154: the length check of _is_rate_limited
ThreadCheckLen(p) ==
    /\ threads[p].pc = "check_len"
    /\ threads' = [threads EXCEPT ![p] =
          IF len_limited(Deref(ledger_refs, lists, threads[p].ident))
          THEN Finished(threads[p], TooManyAttempts)
          ELSE [threads[p] EXCEPT !.pc = "lookup"]]
    /\ UNCHANGED <<session, now, login_attempts, users, last, registered, lists, ledger_refs,
                   hist>>

\* lines 156-175: the lookup and the password check
ThreadLookup(p) ==
    /\ threads[p].pc = "lookup"
    /\ LET th   == threads[p]
           user == find_one(users, Lower(th.email))
       IN  threads' = [threads EXCEPT ![p] =
              IF user = None THEN [th EXCEPT !.pc = "record_get"]
              ELSE IF checkpw_raises(user.password_hash)
              THEN [th EXCEPT !.pc = "record_get"]
              ELSE IF ~checkpw(th.password, user.password_hash)
              THEN [th EXCEPT !.pc = "record_get"]
              ELSE [th EXCEPT !.pc = "clear", !.user = user]]
    /\ hist' = [hist EXCEPT !.lookups = @ + 1]
    /\ UNCHANGED <<session, now, login_attempts, users, last, registered, lists, ledger_refs>>

\* lines 89-90 of _record_failed_attempt: the clock, and the list the dict
\* holds (the object itself) or a new empty list
ThreadRecordGet(p) ==
    /\ threads[p].pc = "record_get"
    /\ LET th  == threads[p]
           id  == IF th.ident \in DOMAIN ledger_refs THEN ledger_refs[th.ident]
                  ELSE Fresh(lists)
           ths == [threads EXCEPT ![p] =
                     [th EXCEPT !.pc = "record_append", !.attempts = id, !.t = now]]
       IN  /\ threads' = ths
           /\ lists' = Collect((id :> Deref(ledger_refs, lists, th.ident)) @@ lists,
                               ledger_refs, ths)
    /\ UNCHANGED <<session, now, login_attempts, users, last, registered, ledger_refs, hist>>

\* line 91: attempts.append(now), in place
ThreadRecordAppend(p) ==
    /\ threads[p].pc = "record_append"
    /\ lists' = [lists EXCEPT ![threads[p].attempts] = Append(@, threads[p].t)]
    /\ threads' = [threads EXCEPT ![p].pc = "record_set"]
    /\ hist' = [hist EXCEPT !.appended = @ + 1]
    /\ UNCHANGED <<session, now, login_attempts, users, last, registered, ledger_refs>>

\* line 92: _login_attempts[identifier] = attempts; line 93 calls the cleanup
ThreadRecordSet(p) ==
    /\ threads[p].pc = "record_set"
    /\ LET th   == threads[p]
           refs == Put(ledger_refs, th.ident, th.attempts)
           ths  == [threads EXCEPT ![p] =
                      [th EXCEPT !.pc = "cleanup_read", !.attempts = 0,
                                 !.after = "return"]]
       IN  /\ ledger_refs' = refs
           /\ threads' = ths
           /\ lists' = Collect(lists, refs, ths)
    /\ UNCHANGED <<session, now, login_attempts, users, last, registered, hist>>

\* lines 178-189: the successful login pops the key and returns the user view
ThreadClear(p) ==
    /\ threads[p].pc = "clear"
    /\ LET th   == threads[p]
           refs == IF th.ident \in DOMAIN ledger_refs
                   THEN Pop(ledger_refs, th.ident) ELSE ledger_refs
           ths  == [threads EXCEPT ![p] =
                      Finished(th, [success |-> TRUE, message |-> "Login successful",
                                    user |-> user_safe(th.user)])]
       IN  /\ ledger_refs' = refs
           /\ threads' = ths
           /\ lists' = Collect(lists, refs, ths)
    /\ hist' = [hist EXCEPT !.cleared = TRUE]
    /\ UNCHANGED <<session, now, login_attempts, users, last, registered>>

\* lines 106-124: register_user validates, hashes and builds the document
ThreadBeginRegister(p, calls, max) ==
    /\ threads[p].pc = "idle"
    /\ hist.begun < max
    /\ \E c \in calls : \E salt \in Salts :
         LET th     == [Idle(None) EXCEPT !.op = "register", !.name = c[1],
                                          !.email = c[2], !.password = c[3]]
             errors == _validate_registration_input(c[1], c[2], c[3])
         IN  threads' = [threads EXCEPT ![p] =
                IF ~IsStr(c[2])
                THEN Finished(th, [success |-> FALSE, message |-> "Internal error",
                                   user_id |-> None])
                ELSE IF errors # <<>>
                THEN Finished(th, [success |-> FALSE,
                                   message |-> ValidationFailed(errors),
                                   user_id |-> None])
                ELSE [th EXCEPT !.pc = "insert",
                                !.doc = [name |-> Strip(c[1]),
                                         email |-> Lower(Strip(c[2])),
                                         password_hash |-> hashpw(c[3], salt),
                                         role |-> "user",
                                         created_at |-> now]]]
    /\ hist' = Begun(p)
    /\ UNCHANGED <<session, now, login_attempts, users, last, registered, lists, ledger_refs>>

\* lines 126-132: insert_one, which the store carries out as one step under
\* its unique index
ThreadInsert(p) ==
    /\ threads[p].pc = "insert"
    /\ LET th  == threads[p]
           ins == insert_one(users, th.doc)
       IN  /\ users' = ins.users
           /\ threads' = [threads EXCEPT ![p] =
                 IF ins.raised = ""
                 THEN Finished(th, [success |-> TRUE,
                                    message |-> "User registered successfully",
                                    user_id |-> ObjectIdStr(ins.inserted_id)])
                 ELSE Finished(th, [success |-> FALSE,
                                    message |-> "Email already registered",
                                    user_id |-> None])]
           /\ hist' = [hist EXCEPT !.inserted =
                         IF ins.raised = "" THEN Append(@, th.doc.email) ELSE @]
    /\ UNCHANGED <<session, now, login_attempts, last, registered, lists, ledger_refs>>

\* runs of two threads that call login_user and register_user
NextThreads ==
    \E p \in Threads :
        \/ ThreadBeginLogin(p, ThreadLoginCalls, MaxCallsThreads)
        \/ ThreadCleanupRead(p)
        \/ ThreadCleanupWrite(p)
        \/ ThreadCheckLen(p)
        \/ ThreadLookup(p)
        \/ ThreadRecordGet(p)
        \/ ThreadRecordAppend(p)
        \/ ThreadRecordSet(p)
        \/ ThreadClear(p)
        \/ ThreadBeginRegister(p, ThreadRegisterCalls, MaxCallsThreads)
        \/ ThreadInsert(p)

SpecThreads == Init /\ [][NextThreads]_vars

----------------------------------------------------------------------------
(* Session helpers: auth.py lines 202-224, over the session dict the UI      *)
(* layer owns.  The dict is a function whose domain is the set of keys       *)
(* present; its values are written as strings, "True" and "False" for the    *)
(* booleans and "None" for None.                                             *)

\* the five keys of line 218
SessionKeys == {"logged_in", "user_id", "user_name", "user_email", "user_role"}

\* st_session.get(key)
SessionGet(s, key) == IF key \in DOMAIN s THEN s[key] ELSE "None"

\* bool(value): False, None and the empty string are false
Truthy(value) == value \notin {"False", "None", ""}

is_logged_in(s) == Truthy(SessionGet(s, "logged_in"))

get_current_user(s) ==
    IF ~is_logged_in(s) THEN None
    ELSE [user_id |-> SessionGet(s, "user_id"),
          name    |-> SessionGet(s, "user_name"),
          email   |-> SessionGet(s, "user_email"),
          role    |-> SessionGet(s, "user_role")]

\* mutant: user_role is missing from the list of line 218
logout_ForgetsRole(s, redirect_fn) ==
    [session |-> [k \in DOMAIN s \ (SessionKeys \ {"user_role"}) |-> s[k]],
     ops     |-> IF redirect_fn THEN <<"redirect_fn">> ELSE <<>>,
     result  |-> [success |-> TRUE, message |-> "Logged out successfully"]]

\* logout(st_session, redirect_fn): the session it leaves, the callback it
\* calls, what it returns
logout(s, redirect_fn) ==
    [session |-> [k \in DOMAIN s \ SessionKeys |-> s[k]],
     ops     |-> IF redirect_fn THEN <<"redirect_fn">> ELSE <<>>,
     result  |-> [success |-> TRUE, message |-> "Logged out successfully"]]

\* what the UI layer writes: the page, the five keys after a login (frontend
\* auth.py lines 153-157), and values of the flag that read as false or true
SessionWrites ==
    ({"logged_in"} \X {"True", "False", "", "yes"})
    \cup {<<"user_id", "1">>, <<"user_name", "Al">>, <<"user_email", "a@x.io">>,
          <<"user_role", "user">>, <<"page", "login">>, <<"page", "register">>}

\* the UI layer writes one key of the session
SessionWrite ==
    /\ last = NoCall
    /\ \E w \in SessionWrites :
         session' = [k \in DOMAIN session \cup {w[1]} |->
                        IF k = w[1] THEN w[2] ELSE session[k]]
    /\ UNCHANGED <<now, login_attempts, users, last, registered, thread_vars>>

\* one call of logout; last.found is the session when the call began
Logout ==
    /\ last = NoCall
    /\ \E redirect_fn \in BOOLEAN :
         LET r == logout(session, redirect_fn)
         IN  /\ session' = r.session
             /\ last' = [NoCall EXCEPT !.op = "logout", !.result = r.result,
                                       !.ops = r.ops, !.found = session]
    /\ UNCHANGED <<now, login_attempts, users, registered, thread_vars>>

\* runs over the session
NextSession == SessionWrite \/ Logout \/ Return

SpecSession == Init /\ [][NextSession]_vars

----------------------------------------------------------------------------
(* What the properties speak of *)

\* the call that led to this state
IsLogin == last.op = "login"

IsRegister == last.op = "register"

\* the rate-limit key of the last login_user call
LastIdent == Ident(last.identifier, last.email)

\* a login whose email has the format and whose password is not empty
WellFormed(email, password) == EMAIL_REGEX(email) /\ password # <<>>

\* the attempts of a ledger entry that are at most a window old at time t
Recent(attempts, t) ==
    {i \in DOMAIN attempts : t - attempts[i] <= LOGIN_WINDOW_SECONDS}

\* how often a timestamp occurs in a ledger entry
Occurrences(attempts, ts) == Cardinality({i \in DOMAIN attempts : attempts[i] = ts})

\* the last call reached the store and was counted as a failed attempt
FailedAttempt(result, ops) == result = InvalidCredentials /\ ops = <<"find_one">>

\* the stored account the password of the last login belongs to
PasswordIsCorrect ==
    \E u \in users :
        u.email = Lower(last.email) /\ checkpw(last.password, u.password_hash)

----------------------------------------------------------------------------
(* C1 *)

\* C1: a login_user call with well-formed credentials whose identifier has 5
\* (or more) recorded attempts within the 15-minute window returns the
\* rate-limit message, whatever the password, and makes no store call.
C1_LockedOut ==
    (/\ IsLogin
     /\ WellFormed(last.email, last.password)
     /\ Cardinality(Recent(last.found, now)) >= 5)
    => (/\ last.result.success = FALSE
        /\ last.result.message = "Too many failed attempts. Try again later."
        /\ last.result.user = None
        /\ last.ops = <<>>)

\* a locked-out call that supplied the account's password has returned
C1_Witness ==
    /\ IsLogin
    /\ Cardinality(Recent(last.found, now)) >= 5
    /\ PasswordIsCorrect
    /\ last.result = TooManyAttempts

----------------------------------------------------------------------------
(* C2 *)

\* C2: after a login_user call that the rate limiter rejected, the ledger
\* entry of the call's identifier holds no timestamp that it did not hold when
\* the call began.
C2_RejectionRecordsNothing ==
    (IsLogin /\ last.result = TooManyAttempts)
    => \A ts \in Range(Get(login_attempts, LastIdent)) :
          Occurrences(Get(login_attempts, LastIdent), ts) <= Occurrences(last.found, ts)

\* a rejection has returned
C2_Witness ==
    /\ IsLogin
    /\ last.result = TooManyAttempts
    /\ Len(Get(login_attempts, LastIdent)) = 5

----------------------------------------------------------------------------
(* C3 *)

\* C3: a successful login_user call whose identifier had 1 to 4 recorded
\* attempts leaves the identifier out of the ledger, and a failed attempt for
\* that identifier made right after it, or a clock step later, leaves exactly
\* 1 recorded attempt.
C3_SuccessClears ==
    (IsLogin /\ last.result.success /\ Len(last.found) \in 1..4)
    => /\ LastIdent \notin DOMAIN login_attempts
       /\ \A c \in LedgerLoginCalls : \A d \in {0} \cup TickSteps :
            LET r == login_user(login_attempts, users, now + d, now + d, now + d,
                                c[1], c[2], c[3], "ok")
            IN  (Ident(c[3], c[1]) = LastIdent /\ FailedAttempt(r.result, r.ops))
                => Len(Get(r.attempts, LastIdent)) = 1

\* a login has succeeded for an identifier with recorded attempts, and a
\* failed attempt for it can follow
C3_Witness ==
    /\ IsLogin
    /\ last.result.success
    /\ Len(last.found) \in 1..4
    /\ \E c \in LedgerLoginCalls :
         LET r == login_user(login_attempts, users, now, now, now, c[1], c[2], c[3], "ok")
         IN  Ident(c[3], c[1]) = LastIdent /\ FailedAttempt(r.result, r.ops)

----------------------------------------------------------------------------
(* C4 *)

\* the logins compared: both spellings of the account's address, under either
\* identifier, and those for an address that never has an account
ComparedCalls == LoginCallsOver({EmailA, EmailUpperA, EmailBad, EmailB})

\* the rate limiter lets a call through: well-formed, fewer than 5 recent attempts
Admitted(c) ==
    /\ WellFormed(c[1], c[2])
    /\ Cardinality(Recent(Get(login_attempts, Ident(c[3], c[1])), now)) < 5

\* the call records exactly one attempt for its identifier: its entry becomes
\* the recent attempts it held, then the time of the call
RecordsOne(c, r) ==
    LET k == Ident(c[3], c[1])
        held == Get(login_attempts, k)
    IN  /\ Len(Get(r.attempts, k)) = Cardinality(Recent(held, now)) + 1
        /\ Get(r.attempts, k)[Len(Get(r.attempts, k))] = now
        /\ \A j \in DOMAIN r.attempts \ {k} : r.attempts[j] = Get(login_attempts, j)

\* C4: from one state, a login_user call for an email with no user record and
\* one for an existing email with a wrong password, both let through by the
\* rate limiter, return the same result (success=false, "Invalid
\* credentials", user none) and each records exactly one failed attempt for
\* its identifier.
C4_NoEnumeration ==
    last = NoCall =>
      \A c2 \in ComparedCalls :
        (/\ Admitted(c2)
         /\ \E u \in users : u.email = Lower(c2[1]) /\ ~checkpw(c2[2], u.password_hash))
        => \A c1 \in ComparedCalls :
             (Admitted(c1) /\ ~\E u \in users : u.email = Lower(c1[1]))
             => LET r1 == login_user(login_attempts, users, now, now, now,
                                     c1[1], c1[2], c1[3], "ok")
                    r2 == login_user(login_attempts, users, now, now, now,
                                     c2[1], c2[2], c2[3], "ok")
                IN  /\ r1.result = r2.result
                    /\ r1.result.success = FALSE
                    /\ r1.result.message = "Invalid credentials"
                    /\ r1.result.user = None
                    /\ RecordsOne(c1, r1)
                    /\ RecordsOne(c2, r2)

\* a wrong password for the account has been counted, from a state in which a
\* login for an address without account was let through as well
C4_Witness ==
    /\ IsLogin
    /\ FailedAttempt(last.result, last.ops)
    /\ last.found # <<>>
    /\ \E u \in users : u.email = Lower(last.email)
    /\ Cardinality(Recent(Get(login_attempts, Lower(EmailB)), now)) < 5

----------------------------------------------------------------------------
(* C5 *)

\* the input breaks a registration rule of auth.py lines 46-61
BreaksRule(name, email, password) ==
    \/ Len(Strip(name)) < 2
    \/ ~NAME_REGEX(Strip(name))
    \/ ~EMAIL_REGEX(email)
    \/ Len(password) < 8
    \/ Range(password) \cap Upper = {}
    \/ Range(password) \cap Range(LowerLetters) = {}
    \/ Range(password) \cap Digits = {}
    \/ Range(password) \cap SpecialChars = {}

\* a step that is one register_user call
RegisterStep == last = NoCall /\ last'.op = "register"

EmailAlreadyRegistered ==
    [success |-> FALSE, message |-> "Email already registered", user_id |-> None]

\* C5: once register_user has succeeded with an email, every later
\* register_user call with valid input whose email equals it ignoring letter
\* case fails with "Email already registered" and user_id none, and the store
\* holds exactly one record for that email, its email field being the
\* lowercase form of the email.
C5_DuplicateEmail ==
    [][ /\ \A c \in registered :
             (/\ RegisterStep
              /\ Lower(last'.email) = Lower(c[2])
              /\ ~BreaksRule(last'.name, last'.email, last'.password))
             => last'.result = EmailAlreadyRegistered
        /\ \A c \in registered' :
             /\ Cardinality({u \in users' : Lower(u.email) = Lower(c[2])}) = 1
             /\ \A u \in users' : Lower(u.email) = Lower(c[2]) => u.email = Lower(c[2])
      ]_vars

\* What the code does keep, C5 with the stored field read as the trimmed
\* lowercase form: the later call fails as a duplicate, and exactly one record
\* holds the email as register_user normalises it.
C5_DuplicateEmailTrimmed ==
    [][ /\ \A c \in registered :
             (/\ RegisterStep
              /\ Lower(last'.email) = Lower(c[2])
              /\ ~BreaksRule(last'.name, last'.email, last'.password))
             => last'.result = EmailAlreadyRegistered
        /\ \A c \in registered' :
             Cardinality({u \in users' : u.email = Lower(Strip(c[2]))}) = 1
      ]_vars

----------------------------------------------------------------------------
(* C6 *)

ViewFields == {"user_id", "name", "email", "role", "created_at"}

\* the last call is a login with the email of the registration c, in any
\* letter case, and its password, for an identifier that is not rate-limited
LogsInAs(c) ==
    /\ IsLogin
    /\ Lower(last.email) = Lower(c[2])
    /\ last.password = c[3]
    /\ Cardinality(Recent(last.found, now)) < 5

\* C6: after register_user(name, email, password) has succeeded, login_user
\* with the same email in any letter case and the same password, for an
\* identifier that is not rate-limited, succeeds and returns a view whose
\* email is the lowercased registration email and whose fields are exactly
\* user_id, name, email, role and created_at.
C6_RoundTrip ==
    \A c \in registered :
        LogsInAs(c)
        => /\ last.result.success
           /\ last.result.message = "Login successful"
           /\ DOMAIN last.result.user = ViewFields
           /\ last.result.user.email = Lower(c[2])

\* What the code does keep: the round trip for every registration email that
\* strip() leaves as it is.
C6_RoundTripTrimmed ==
    \A c \in registered :
        (LogsInAs(c) /\ Strip(c[2]) = c[2])
        => /\ last.result.success
           /\ last.result.message = "Login successful"
           /\ DOMAIN last.result.user = ViewFields
           /\ last.result.user.email = Lower(c[2])

----------------------------------------------------------------------------
(* C7 *)

\* C7: a register_user call whose input breaks a registration rule returns
\* success=false with user_id none, makes no store call and leaves the user
\* records as they were.
C7_InvalidRegistration ==
    [][ (RegisterStep /\ BreaksRule(last'.name, last'.email, last'.password))
        => /\ last'.result.success = FALSE
           /\ last'.result.user_id = None
           /\ last'.ops = <<>>
           /\ users' = users
      ]_vars

\* an invalid registration has returned, with an account in the store
C7_Witness ==
    /\ IsRegister
    /\ BreaksRule(last.name, last.email, last.password)
    /\ last.result.success = FALSE
    /\ users # {}

----------------------------------------------------------------------------
(* C8 *)

\* a step that is one login_user call
LoginStep == last = NoCall /\ last'.op = "login"

\* C8: a login_user call whose email fails the format check or whose password
\* is empty returns the generic invalid-credentials failure, leaves the whole
\* ledger as it was and makes no store call.
C8_InvalidLogin ==
    [][ (LoginStep /\ (~EMAIL_REGEX(last'.email) \/ last'.password = <<>>))
        => /\ last'.result.success = FALSE
           /\ last'.result.message = "Invalid credentials"
           /\ last'.result.user = None
           /\ login_attempts' = login_attempts
           /\ last'.ops = <<>>
      ]_vars

\* a login with an empty password has returned while its identifier was
\* locked out
C8_Witness ==
    /\ IsLogin
    /\ last.password = <<>>
    /\ EMAIL_REGEX(last.email)
    /\ Cardinality(Recent(last.found, now)) >= 5
    /\ last.result = InvalidCredentials

----------------------------------------------------------------------------
(* C9 *)

\* C9: in every reachable state every timestamp the ledger retains, for every
\* identifier, lies within the trailing 15-minute window of the current time.
C9_AllWithinWindow ==
    \A k \in DOMAIN login_attempts : \A i \in DOMAIN login_attempts[k] :
        now - login_attempts[k][i] <= LOGIN_WINDOW_SECONDS

\* C9 as amended: when a login_user call with well-formed credentials
\* returns, every timestamp retained for that call's identifier lies within
\* the trailing 15-minute window of the time of the call.
C9_ReadPrunes ==
    (IsLogin /\ WellFormed(last.email, last.password))
    => \A i \in DOMAIN Get(login_attempts, LastIdent) :
          /\ now - login_attempts[LastIdent][i] <= LOGIN_WINDOW_SECONDS
          /\ login_attempts[LastIdent][i] <= now

\* a call has found attempts older than the window beside recent ones
C9_Witness ==
    /\ IsLogin
    /\ WellFormed(last.email, last.password)
    /\ \E i \in DOMAIN last.found : now - last.found[i] > LOGIN_WINDOW_SECONDS
    /\ Recent(last.found, now) # {}

----------------------------------------------------------------------------
(* C10 *)

\* C10: no identifier of the ledger maps to an empty sequence, and an
\* identifier enters the ledger only by a failed attempt of a login_user call
\* for it.
C10_NoEmptyEntry ==
    [][ /\ \A k \in DOMAIN login_attempts' : login_attempts'[k] # <<>>
        /\ \A k \in DOMAIN login_attempts' \ DOMAIN login_attempts :
             /\ LoginStep
             /\ Ident(last'.identifier, last'.email) = k
             /\ FailedAttempt(last'.result, last'.ops)
      ]_vars

\* a login has read an identifier whose attempts were all older than the
\* window, and has left it out of the ledger
C10_Witness ==
    /\ IsLogin
    /\ last.result.success
    /\ last.found # <<>>
    /\ Recent(last.found, now) = {}
    /\ LastIdent \notin DOMAIN login_attempts

----------------------------------------------------------------------------
(* C11 *)

\* the identifiers the rate-limit check is asked about: those of the ledger,
\* and one it does not hold
CheckedIdentifiers == DOMAIN login_attempts \cup {Lower(EmailB)}

\* C11: for every ledger state and identifier, _is_rate_limited called twice
\* in succession at one time, nothing recorded in between, answers the same
\* and retains the same count both times, and the second call leaves the
\* ledger as the first left it.
C11_PruningIdempotent ==
    \A k \in CheckedIdentifiers : \A d \in {0} \cup TickSteps :
        LET first  == _is_rate_limited(login_attempts, k, now + d)
            second == _is_rate_limited(first.attempts, k, now + d)
        IN  /\ second.limited = first.limited
            /\ Len(Get(second.attempts, k)) = Len(Get(first.attempts, k))
            /\ second.attempts = first.attempts

\* the ledger holds 5 attempts for an identifier, one of them older than the
\* window: the first check prunes, and answers otherwise than the count held
C11_Witness ==
    /\ last = NoCall
    /\ \E k \in DOMAIN login_attempts :
         /\ Len(login_attempts[k]) = 5
         /\ Len(Get(_is_rate_limited(login_attempts, k, now).attempts, k)) \in 1..4
         /\ ~_is_rate_limited(login_attempts, k, now).limited

----------------------------------------------------------------------------
(* C12 *)

\* the last register_user call was refused by validation
RefusedByValidation ==
    /\ IsStr(last.email)
    /\ _validate_registration_input(last.name, last.email, last.password) # <<>>

\* C12: every register_user and login_user call, whatever its input and
\* whatever the store does, returns a result of the three fields success,
\* message and user_id (user for a login), its message one of the fixed
\* outcomes of the operation, success being true exactly when the data field
\* is not none.
C12_StructuredResult ==
    /\ IsRegister =>
         /\ DOMAIN last.result = {"success", "message", "user_id"}
         /\ last.result.success \in BOOLEAN
         /\ \/ /\ RefusedByValidation
               /\ last.result.message =
                    ValidationFailed(_validate_registration_input(
                        last.name, last.email, last.password))
            \/ /\ ~RefusedByValidation
               /\ last.result.message \in
                    {"User registered successfully", "Email already registered",
                     "Database error", "Internal error"}
         /\ last.result.success <=> last.result.user_id # None
    /\ IsLogin =>
         /\ DOMAIN last.result = {"success", "message", "user"}
         /\ last.result.success \in BOOLEAN
         /\ last.result.message \in
              {"Login successful", "Invalid credentials",
               "Too many failed attempts. Try again later.",
               "Database error", "Internal error"}
         /\ last.result.success <=> last.result.user # None

\* every kind of outcome has been returned: a call has come back from an
\* unexpected fault of the store, with an account registered and a failed
\* attempt on the ledger
C12_Witness ==
    /\ last.op # "none"
    /\ last.store = "Exception"
    /\ last.result.message = "Internal error"
    /\ users # {}
    /\ login_attempts # <<>>

----------------------------------------------------------------------------
(* C13 *)

\* C13: a register_user call whose insert fails with a store error that is no
\* duplicate key, and a login_user call whose lookup fails with one, return
\* success=false with the message "Database error" and no data; the register
\* call leaves the user records as they were, the login call records no
\* attempt for its identifier and leaves every other ledger entry alone.
C13_StoreError ==
    [][ /\ (/\ RegisterStep
            /\ last'.store = "PyMongoError"
            /\ last'.ops = <<"insert_one">>)
           => /\ last'.result = [success |-> FALSE, message |-> "Database error",
                                 user_id |-> None]
              /\ last'.result.message # "Internal error"
              /\ users' = users
        /\ (/\ LoginStep
            /\ last'.store = "PyMongoError"
            /\ last'.ops = <<"find_one">>)
           => LET k == Ident(last'.identifier, last'.email)
              IN  /\ last'.result = DatabaseError
                  /\ last'.result.message # "Internal error"
                  /\ \A ts \in Range(Get(login_attempts', k)) :
                        Occurrences(Get(login_attempts', k), ts)
                          <= Occurrences(Get(login_attempts, k), ts)
                  /\ \A j \in (DOMAIN login_attempts \cup DOMAIN login_attempts') \ {k} :
                        Get(login_attempts', j) = Get(login_attempts, j)
                  /\ users' = users
      ]_vars

\* a lookup has failed with a store error for an identifier that has an
\* attempt on the ledger, an account being registered
C13_Witness ==
    /\ IsLogin
    /\ last.store = "PyMongoError"
    /\ last.result = DatabaseError
    /\ last.found # <<>>
    /\ users # {}

----------------------------------------------------------------------------
(* C14 *)

\* the record the last login looked up holds a hash bcrypt cannot parse
StoredHashMalformed ==
    \E u \in users : u.email = Lower(last.email) /\ checkpw_raises(u.password_hash)

\* C14: a login_user call, let through by the rate limiter, that finds a
\* record whose stored hash is malformed returns the result of a wrong
\* password (success=false, "Invalid credentials", no user) and records
\* exactly one attempt for its identifier.
C14_MalformedHash ==
    (/\ IsLogin
     /\ last.store = "ok"
     /\ WellFormed(last.email, last.password)
     /\ Cardinality(Recent(last.found, now)) < 5
     /\ StoredHashMalformed)
    => /\ last.result = InvalidCredentials
       /\ last.result.message # "Internal error"
       /\ Len(Get(login_attempts, LastIdent)) = Cardinality(Recent(last.found, now)) + 1
       /\ Get(login_attempts, LastIdent)[Len(Get(login_attempts, LastIdent))] = now

\* a login has met the malformed hash for a second time
C14_Witness ==
    /\ IsLogin
    /\ last.store = "ok"
    /\ StoredHashMalformed
    /\ last.result = InvalidCredentials
    /\ Len(Get(login_attempts, LastIdent)) = 2

----------------------------------------------------------------------------
(* C15 *)

\* no thread is inside a call
AllIdle == \A p \in Threads : threads[p].pc = "idle"

\* the list the dict holds for the identifier of the threaded runs
ThreadEntry == Deref(ledger_refs, lists, Lower(EmailA))

\* an appended attempt is missing from the ledger, though no login succeeded
\* and nothing is old enough to be pruned
AttemptLost == ~hist.cleared /\ AllIdle /\ Len(ThreadEntry) < hist.appended

\* more than 5 calls passed the rate-limit check and reached the store, though
\* no login succeeded in between
LimitPassed == ~hist.cleared /\ hist.lookups > 5

\* C15: the ledger's read-prune-append-check sequence is a race between
\* login_user calls that overlap: an appended attempt is lost from the ledger,
\* or more than 5 failed attempts of one window reach the store, only in runs
\* in which two calls overlapped (and in such runs both happen, C15_Witness).
C15_LedgerRace == (AttemptLost \/ LimitPassed) => hist.overlapped

\* two overlapping failed attempts have both passed the check on the same
\* count: 6 lookups were made in one window, and an appended attempt is gone
C15_Witness == AttemptLost /\ LimitPassed

----------------------------------------------------------------------------
(* C16 *)

\* C16: in every session state, get_current_user returns none when the
\* logged_in flag is absent or false; after logout the five keys are absent,
\* is_logged_in is false and get_current_user returns none, every other key
\* is as it was, and a second logout changes nothing.
C16_Session ==
    /\ ("logged_in" \notin DOMAIN session \/ session["logged_in"] \in {"False", "None", ""})
         => get_current_user(session) = None
    /\ last.op = "logout" =>
         /\ DOMAIN session \cap SessionKeys = {}
         /\ ~is_logged_in(session)
         /\ get_current_user(session) = None
         /\ DOMAIN session = DOMAIN last.found \ SessionKeys
         /\ \A k \in DOMAIN session : session[k] = last.found[k]
         /\ \A redirect_fn \in BOOLEAN : logout(session, redirect_fn).session = session

\* logout has returned for a session that was logged in, held the five keys
\* and another key, which is still there
C16_Witness ==
    /\ last.op = "logout"
    /\ SessionKeys \subseteq DOMAIN last.found
    /\ is_logged_in(last.found)
    /\ "page" \in DOMAIN session

----------------------------------------------------------------------------
(* C17 *)

\* the attempts of a ledger entry that are at most 900 seconds old at time t,
\* in their order
RecentSeq(attempts, t) ==
    LET counted(ts) == t - ts <= 900
    IN  SelectSeq(attempts, counted)

\* C17: an attempt counts toward the limit exactly while it is at most 900
\* seconds old.  A well-formed login_user call is rejected by the rate limiter
\* exactly when 5 or more attempts of its identifier are that recent; a
\* rejected call leaves those attempts, and nothing else, in the entry; and at
\* the present time or a clock step later, with no call in between, the check
\* answers by the ages of the recorded attempts alone.
C17_LockoutExpiry ==
    /\ (IsLogin /\ WellFormed(last.email, last.password))
         => /\ last.result = TooManyAttempts
                 <=> Len(RecentSeq(last.found, now)) >= 5
            /\ last.result = TooManyAttempts
                 => Get(login_attempts, LastIdent) = RecentSeq(last.found, now)
    /\ \A k \in DOMAIN login_attempts : \A d \in {0} \cup TickSteps :
         _is_rate_limited(login_attempts, k, now + d).limited
           <=> Len(RecentSeq(login_attempts[k], now + d)) >= 5

\* a call has been let through for an identifier that held 5 attempts: one
\* older than 900 seconds, dropped, and one exactly 900 seconds old, counted
C17_Witness ==
    /\ IsLogin
    /\ WellFormed(last.email, last.password)
    /\ Len(last.found) = 5
    /\ \E i \in DOMAIN last.found : now - last.found[i] = 900
    /\ \E i \in DOMAIN last.found : now - last.found[i] > 900
    /\ last.result # TooManyAttempts
    /\ Len(RecentSeq(last.found, now)) \in 1..4

----------------------------------------------------------------------------
(* C18 *)

\* C18: with login_user calls made one at a time, no identifier of the ledger
\* ever holds more than 5 timestamps.
C18_AtMostFive ==
    \A k \in DOMAIN login_attempts : Len(login_attempts[k]) <= 5

\* a failed attempt has filled the entry of its identifier to 5 timestamps
C18_Witness ==
    /\ IsLogin
    /\ FailedAttempt(last.result, last.ops)
    /\ Len(last.found) = 4
    /\ Len(Get(login_attempts, LastIdent)) = 5

----------------------------------------------------------------------------
(* C19 *)

\* thread p has returned from a register_user call with valid input
RegisteredBy(p) ==
    /\ threads[p].pc = "idle"
    /\ threads[p].op = "register"
    /\ ~BreaksRule(threads[p].name, threads[p].email, threads[p].password)

\* C19: of register_user calls with valid input and emails equal ignoring
\* letter case, run by two threads against the store with its unique index,
\* never two succeed and never two records hold the same lowercased email;
\* when the two are the only calls made and they overlapped, exactly one
\* returns success with a user_id and the other "Email already registered".
C19_ConcurrentRegister ==
    /\ \A u1, u2 \in users : Lower(u1.email) = Lower(u2.email) => u1 = u2
    /\ \A p, q \in Threads :
         (/\ p # q
          /\ RegisteredBy(p)
          /\ RegisteredBy(q)
          /\ Lower(threads[p].email) = Lower(threads[q].email))
         => /\ ~(threads[p].result.success /\ threads[q].result.success)
            /\ (hist.begun = 2 /\ hist.overlapped)
                 => \E a, b \in Threads :
                      /\ a # b
                      /\ threads[a].result.success
                      /\ threads[a].result.message = "User registered successfully"
                      /\ threads[a].result.user_id # None
                      /\ threads[b].result = EmailAlreadyRegistered

\* two overlapping calls, the email in two letter cases, have both returned:
\* the store holds one record
C19_Witness ==
    /\ hist.begun = 2
    /\ hist.overlapped
    /\ \A p \in Threads : RegisteredBy(p)
    /\ \E p, q \in Threads :
         /\ threads[p].email = EmailA
         /\ threads[q].email = EmailUpperA
         /\ threads[q].result.success
    /\ Cardinality(users) = 1

(* C20 *)

\* the attempts a ledger holds for one account (one lowercased email) that are
\* at most a window old at time t, over every entry whose identifier is a
\* spelling of that email.  Each was recorded after find_one, by a login the
\* store was asked about.
RECURSIVE AttemptsOnAccount(_, _, _)
AttemptsOnAccount(la, account, t) ==
    IF DOMAIN la = {} THEN 0
    ELSE LET k == CHOOSE k \in DOMAIN la : TRUE
         IN  (IF Lower(k) = account THEN Len(RecentSeq(la[k], t)) ELSE 0)
             + AttemptsOnAccount(Pop(la, k), account, t)

\* C20: for logins submitted through the login page, the failed attempts
\* against one account are counted in a single ledger entry whatever letter
\* case the email is typed in, and at most 5 failed password verifications
\* for one account (one lowercased email) reach the store within any window
\* of 15 minutes.
C20_FrontendSingleBucket ==
    /\ \A k1, k2 \in DOMAIN login_attempts : Lower(k1) = Lower(k2) => k1 = k2
    /\ \A u \in users :
         AttemptsOnAccount(login_attempts, u.email, now) <= MAX_LOGIN_ATTEMPTS

\* the second half of C20 alone: at most 5 failed password verifications for
\* one account within a window
C20_FiveVerifications ==
    \A u \in users :
        AttemptsOnAccount(login_attempts, u.email, now) <= MAX_LOGIN_ATTEMPTS

====
